---- MODULE Spec2Model ----
(***************************************************************************)
(* Zonal statistics by raster value: a model of the main block of          *)
(* zonal_by_raster_values.py.  The rasters are one pixel high, so a block  *)
(* window is an interval of pixel columns.  A float is a record            *)
(* [nan, v]: either NaN or the number v.  An optional value (a nodata      *)
(* value that GDAL may report as None) is <<>> or <<x>>.                   *)
(***************************************************************************)
EXTENDS Integers, Sequences, FiniteSets

\* Width of the aligned value raster in pixels.
NumPixels == 2

\* numpy.iinfo(int) is the 64-bit range; TLC's integers are 32 bits wide, so
\* the model keeps the range's shape at a narrower width.  A float pixel can
\* lie outside the range at either width.
IntBits == 24

IntMax == 2 ^ (IntBits - 1) - 1
IntMin == 0 - 2 ^ (IntBits - 1)

F(x) == [nan |-> FALSE, v |-> x]
NaN == [nan |-> TRUE, v |-> 0]

None == <<>>
Some(x) == <<x>>

\* Zone ids a zone raster pixel may hold, and the pixel values of the value
\* raster: two ordinary values, a nodata value and a value within numpy's
\* tolerance of it, NaN, and a float just above the int range.
Zones == {0, 1, 2}
Values == {F(1), F(2), F(200000), F(200001), NaN, F(IntMax + 1)}
ValueNodatas == {None, Some(F(200000)), Some(NaN)}
ZoneNodatas == {None, Some(0)}

\* A window [lo, hi] covers the pixel columns lo..hi.
Windows == {w \in [lo : 1..NumPixels, hi : 1..NumPixels] : w.lo <= w.hi}

\* Sequences of windows that cover 1..NumPixels exactly once, in any order.
BlockSeqs ==
    {s \in UNION {[1..n -> Windows] : n \in 1..NumPixels} :
        /\ \A p \in 1..NumPixels :
              Cardinality({k \in DOMAIN s : s[k].lo <= p /\ p <= s[k].hi}) = 1}

\* geoprocessing.iterblocks: the windows in raster order.
IterBlocks ==
    {s \in BlockSeqs : \A k \in 1..(Len(s) - 1) : s[k].hi < s[k + 1].lo}

VARIABLES
    zone_raster,      \* the zone raster's pixels, 1..zone width
    value_raster,     \* the aligned value raster's pixels, 1..NumPixels
    value_nodata,     \* clipped_value_band.GetNoDataValue()
    zone_nodata,      \* zone_band.GetNoDataValue()
    offset_blocks,    \* list(iterblocks(clipped value raster))
    pc,               \* "loop", "finalize", "done", "aborted"
    i,                \* index of the next block of offset_blocks
    stats_dict,       \* zone id -> [min, max, count, sum]
    key_order,        \* the keys of stats_dict in insertion order
    zone_list,        \* sorted(stats_dict)
    j,                \* index of the next zone of zone_list
    csv_table_dict,   \* column name -> list
    output,           \* the csv file: None, or Some([columns, rows])
    n_reads,          \* ReadAsArray calls made so far
    read_failed,      \* a ReadAsArray call has failed
    default_mean      \* the count = 0 branch of the mean has been taken

vars == <<zone_raster, value_raster, value_nodata, zone_nodata, offset_blocks,
          pc, i, stats_dict, key_order, zone_list, j, csv_table_dict, output,
          n_reads, read_failed, default_mean>>

inputs == <<zone_raster, value_raster, value_nodata, zone_nodata,
            offset_blocks>>

(***************************************************************************)
(* Float arithmetic, numpy and builtins                                    *)
(***************************************************************************)
Abs(x) == IF x < 0 THEN 0 - x ELSE x

\* numpy.isclose defaults rtol = 1e-05 and atol = 1e-08, scaled by 1e8.
RTolE8 == 1000
ATolE8 == 1
E8 == 100000000

\* numpy.isclose(a, b): |a - b| <= atol + rtol * |b|, false when either is NaN.
IsClose(a, b) ==
    /\ ~a.nan
    /\ ~b.nan
    /\ Abs(a.v - b.v) <= (ATolE8 + RTolE8 * Abs(b.v)) \div E8

FLt(a, b) == ~a.nan /\ ~b.nan /\ a.v < b.v
FAdd(a, b) == IF a.nan \/ b.nan THEN NaN ELSE F(a.v + b.v)

\* builtin min(a, b) and max(a, b): b replaces a only when b < a (b > a).
PyMin(a, b) == IF FLt(b, a) THEN b ELSE a
PyMax(a, b) == IF FLt(a, b) THEN b ELSE a

\* numpy.min and numpy.max of a non-empty array: NaN when any element is NaN.
NpMin(arr) ==
    IF \E k \in DOMAIN arr : arr[k].nan THEN NaN
    ELSE CHOOSE x \in {arr[k] : k \in DOMAIN arr} :
            \A k \in DOMAIN arr : x.v <= arr[k].v
NpMax(arr) ==
    IF \E k \in DOMAIN arr : arr[k].nan THEN NaN
    ELSE CHOOSE x \in {arr[k] : k \in DOMAIN arr} :
            \A k \in DOMAIN arr : x.v >= arr[k].v

RECURSIVE NpSum(_)
NpSum(arr) ==
    IF arr = <<>> THEN F(0) ELSE FAdd(NpSum(Tail(arr)), Head(arr))

\* arr[mask]: the elements of arr where mask is true, in order.
RECURSIVE BoolIndex(_, _)
BoolIndex(arr, mask) ==
    IF arr = <<>> THEN <<>>
    ELSE (IF Head(mask) THEN <<Head(arr)>> ELSE <<>>)
             \o BoolIndex(Tail(arr), Tail(mask))

CountNonzero(mask) == Cardinality({k \in DOMAIN mask : mask[k]})

\* sorted(S) of a set of integers, ascending.
RECURSIVE Sorted(_)
Sorted(S) ==
    IF S = {} THEN <<>>
    ELSE LET m == CHOOSE x \in S : \A y \in S : x <= y
         IN <<m>> \o Sorted(S \ {m})

\* numpy.unique(arr): the distinct elements, ascending.
Unique(arr) == Sorted({arr[k] : k \in DOMAIN arr})

RECURSIVE Gcd(_, _)
Gcd(a, b) == IF b = 0 THEN a ELSE Gcd(b, a % b)

\* sum / count for count > 0, as a fraction in lowest terms.
FDiv(a, n) ==
    IF a.nan THEN [nan |-> TRUE, num |-> 0, den |-> 1]
    ELSE LET g == Gcd(Abs(a.v), n)
         IN [nan |-> FALSE, num |-> a.v \div g, den |-> n \div g]

(***************************************************************************)
(* The block loop                                                          *)
(***************************************************************************)
\* The default factory of stats_dict.
DefaultAcc ==
    [min |-> F(IntMax), max |-> F(IntMin), count |-> 0, sum |-> F(0)]

\* band.ReadAsArray(**offset_block) of a window inside the raster.
ReadAsArray(raster, w) == SubSeq(raster, w.lo, w.hi)

\* The window lies inside the zone raster.
InZoneRaster(w) == w.hi <= Len(zone_raster)

\* zone_array != zone_nodata, elementwise; nothing equals None.
ZoneNe(z, nodata) == nodata = None \/ z # nodata[1]

\* ~numpy.isclose(value_array, value_nodata) & (zone_array != zone_nodata)
ValidMask(value_array, zone_array) ==
    [k \in DOMAIN value_array |->
        ~IsClose(value_array[k], value_nodata[1])
            /\ ZoneNe(zone_array[k], zone_nodata)]

\* stats_dict[zone_val], which creates the entry when it is missing.
Entry(stats, zone_val) ==
    IF zone_val \in DOMAIN stats THEN stats[zone_val] ELSE DefaultAcc

\* The count left as it was.
CountNotAdded(acc, zone_mask) == acc.count

\* stats_dict[zone_val]['count'] += numpy.count_nonzero(zone_mask)
NewCount(acc, zone_mask) == acc.count + CountNonzero(zone_mask)

\* The body of the loop over the zones of one block.
FoldZone(stats, zone_val, valid_value, valid_zone) ==
    LET zone_mask == [k \in DOMAIN valid_zone |-> valid_zone[k] = zone_val]
        sub == BoolIndex(valid_value, zone_mask)
        acc == Entry(stats, zone_val)
        new == [min |-> PyMin(acc.min, NpMin(sub)),
                max |-> PyMax(acc.max, NpMax(sub)),
                count |-> NewCount(acc, zone_mask),
                sum |-> FAdd(acc.sum, NpSum(sub))]
    IN [z \in DOMAIN stats \cup {zone_val} |->
           IF z = zone_val THEN new ELSE stats[z]]

RECURSIVE FoldZones(_, _, _, _)
FoldZones(stats, zone_vals, valid_value, valid_zone) ==
    IF zone_vals = <<>> THEN stats
    ELSE FoldZones(FoldZone(stats, Head(zone_vals), valid_value, valid_zone),
                   Tail(zone_vals), valid_value, valid_zone)

\* The zones the loop of one block visits, in order.
BlockZones(vraster, zraster, w) ==
    LET value_array == ReadAsArray(vraster, w)
        zone_array == ReadAsArray(zraster, w)
    IN Unique(BoolIndex(zone_array, ValidMask(value_array, zone_array)))

\* One iteration of the block loop on stats.
FoldStats(stats, vraster, zraster, w) ==
    LET value_array == ReadAsArray(vraster, w)
        zone_array == ReadAsArray(zraster, w)
        valid_mask == ValidMask(value_array, zone_array)
        valid_value == BoolIndex(value_array, valid_mask)
        valid_zone == BoolIndex(zone_array, valid_mask)
    IN FoldZones(stats, Unique(valid_zone), valid_value, valid_zone)

EmptyDict == [k \in {} |-> 0]

Init ==
    /\ value_raster \in [1..NumPixels -> Values]
    /\ \E width \in {NumPixels - 1, NumPixels} :
           zone_raster \in [1..width -> Zones]
    /\ value_nodata \in ValueNodatas
    /\ zone_nodata \in ZoneNodatas
    /\ offset_blocks \in IterBlocks
    /\ pc = "loop"
    /\ i = 1
    /\ stats_dict = EmptyDict
    /\ key_order = <<>>
    /\ zone_list = <<>>
    /\ j = 1
    /\ csv_table_dict = EmptyDict
    /\ output = None
    /\ n_reads = 0
    /\ read_failed = FALSE
    /\ default_mean = FALSE

Abort ==
    /\ pc' = "aborted"
    /\ UNCHANGED <<inputs, i, stats_dict, key_order, zone_list, j,
                   csv_table_dict, output, default_mean>>

\* A failed read that is swallowed: the loop goes on to the next block.
ReadFailureSkipped ==
    /\ pc = "loop"
    /\ i <= Len(offset_blocks)
    /\ \E k \in 1..2 : n_reads' = n_reads + k
    /\ read_failed' = TRUE
    /\ i' = i + 1
    /\ UNCHANGED <<inputs, pc, stats_dict, key_order, zone_list, j,
                   csv_table_dict, output, default_mean>>

\* A ReadAsArray call of the value band or of the zone band fails on its own
\* (an I/O error): it raises, or it returns None and the masking raises.
ReadFailure ==
    /\ pc = "loop"
    /\ i <= Len(offset_blocks)
    /\ \E k \in 1..2 : n_reads' = n_reads + k
    /\ read_failed' = TRUE
    /\ Abort

\* The window of the value raster lies outside the zone raster: the zone
\* band's ReadAsArray fails after the value band's has succeeded.
ZoneReadOutside ==
    /\ pc = "loop"
    /\ i <= Len(offset_blocks)
    /\ ~InZoneRaster(offset_blocks[i])
    /\ n_reads' = n_reads + 2
    /\ read_failed' = TRUE
    /\ Abort

\* value_nodata is None: numpy.isclose(value_array, None) raises TypeError.
IsCloseTypeError ==
    /\ pc = "loop"
    /\ i <= Len(offset_blocks)
    /\ InZoneRaster(offset_blocks[i])
    /\ value_nodata = None
    /\ n_reads' = n_reads + 2
    /\ UNCHANGED read_failed
    /\ Abort

KeysAfter(order, zone_vals) ==
    order \o SelectSeq(zone_vals,
                       LAMBDA z : \A k \in DOMAIN order : order[k] # z)

\* One iteration of the loop over offset_blocks.
FoldBlock ==
    /\ pc = "loop"
    /\ i <= Len(offset_blocks)
    /\ InZoneRaster(offset_blocks[i])
    /\ value_nodata # None
    /\ stats_dict' =
           FoldStats(stats_dict, value_raster, zone_raster, offset_blocks[i])
    /\ key_order' =
           KeysAfter(key_order,
                     BlockZones(value_raster, zone_raster, offset_blocks[i]))
    /\ i' = i + 1
    /\ n_reads' = n_reads + 2
    /\ UNCHANGED <<inputs, pc, zone_list, j, csv_table_dict, output,
                   read_failed, default_mean>>

(***************************************************************************)
(* Finalization and the table                                              *)
(***************************************************************************)
\* list(stats_dict): the keys as inserted.
InsertionOrder == key_order

\* zone_list = sorted(stats_dict)
ZoneList == Sorted(DOMAIN stats_dict)

\* The sum over one more than the count.
MeanOverCountPlusOne(acc) ==
    IF acc.count > 0 THEN FDiv(acc.sum, acc.count + 1)
    ELSE [nan |-> FALSE, num |-> 0, den |-> 1]

\* sum / count when count > 0, else 0.
Mean(acc) ==
    IF acc.count > 0 THEN FDiv(acc.sum, acc.count)
    ELSE [nan |-> FALSE, num |-> 0, den |-> 1]

\* csv_table_dict[col].append(x) on a defaultdict(list).
AppendCol(d, col, x) ==
    [k \in DOMAIN d \cup {col} |->
        IF k = col THEN Append(IF col \in DOMAIN d THEN d[col] ELSE <<>>, x)
        ELSE d[k]]

column_names == <<"zone", "min", "max", "mean", "count", "sum">>

\* The loop has run through offset_blocks.
StartFinalize ==
    /\ pc = "loop"
    /\ i > Len(offset_blocks)
    /\ zone_list' = ZoneList
    /\ csv_table_dict' = EmptyDict
    /\ j' = 1
    /\ pc' = "finalize"
    /\ UNCHANGED <<inputs, i, stats_dict, key_order, output, n_reads,
                   read_failed, default_mean>>

\* One iteration of the loop over zone_list.
FinalizeRow ==
    /\ pc = "finalize"
    /\ j <= Len(zone_list)
    /\ LET zone_id == zone_list[j]
           acc == Entry(stats_dict, zone_id)
           d1 == AppendCol(csv_table_dict, "zone", zone_id)
           d2 == AppendCol(d1, "min", acc.min)
           d3 == AppendCol(d2, "max", acc.max)
           d4 == AppendCol(d3, "count", acc.count)
           d5 == AppendCol(d4, "sum", acc.sum)
       IN /\ csv_table_dict' = AppendCol(d5, "mean", Mean(acc))
          /\ stats_dict' =
                 [z \in DOMAIN stats_dict \cup {zone_id} |->
                     Entry(stats_dict, z)]
          /\ default_mean' = (default_mean \/ acc.count = 0)
    /\ j' = j + 1
    /\ UNCHANGED <<inputs, pc, i, key_order, zone_list, output, n_reads,
                   read_failed>>

\* The rows of a table whose columns all exist.
TableRows(d) ==
    [k \in 1..Len(d["zone"]) |->
        [zone |-> d["zone"][k], min |-> d["min"][k], max |-> d["max"][k],
         mean |-> d["mean"][k], count |-> d["count"][k], sum |-> d["sum"][k]]]

HasColumns(d) == \A c \in DOMAIN column_names : column_names[c] \in DOMAIN d

\* pandas.DataFrame.from_dict(csv_table_dict).to_csv(columns=column_names).
ToCsv ==
    /\ pc = "finalize"
    /\ j > Len(zone_list)
    /\ HasColumns(csv_table_dict)
    /\ output' = Some([columns |-> column_names,
                       rows |-> TableRows(csv_table_dict)])
    /\ pc' = "done"
    /\ UNCHANGED <<inputs, i, stats_dict, key_order, zone_list, j,
                   csv_table_dict, n_reads, read_failed, default_mean>>

\* No row was appended, so the frame has no columns and selecting
\* column_names from it raises KeyError before the file is opened.
ToCsvKeyError ==
    /\ pc = "finalize"
    /\ j > Len(zone_list)
    /\ ~HasColumns(csv_table_dict)
    /\ UNCHANGED <<n_reads, read_failed>>
    /\ Abort

Next ==
    \/ ReadFailure
    \/ ZoneReadOutside
    \/ IsCloseTypeError
    \/ FoldBlock
    \/ StartFinalize
    \/ FinalizeRow
    \/ ToCsv
    \/ ToCsvKeyError

Spec == Init /\ [][Next]_vars

(***************************************************************************)
(* Properties                                                              *)
(***************************************************************************)
CsvRows ==
    IF HasColumns(csv_table_dict) THEN TableRows(csv_table_dict) ELSE <<>>

Written == output # None
OutRows == output[1].rows
OutRowSet == {OutRows[k] : k \in DOMAIN OutRows}

SameGrid == Len(zone_raster) = NumPixels

\* The pixel is one the validity mask of the code lets through.
PassesMask(p) ==
    /\ value_nodata # None
    /\ ~IsClose(value_raster[p], value_nodata[1])
    /\ ZoneNe(zone_raster[p], zone_nodata)

\* The pixel's value is the nodata value of the value raster, exactly or
\* within the tolerance; the pixel's zone is the nodata value of the zone
\* raster.
IsValueNodata(p) ==
    /\ value_nodata # None
    /\ \/ value_raster[p] = value_nodata[1]
       \/ IsClose(value_raster[p], value_nodata[1])
IsZoneNodata(p) == zone_nodata # None /\ zone_raster[p] = zone_nodata[1]
ValidPixel(p) == ~IsValueNodata(p) /\ ~IsZoneNodata(p)

\* The pixels of the blocks folded so far.
FoldedPixels ==
    {p \in 1..NumPixels :
        \E k \in 1..(i - 1) : offset_blocks[k].lo <= p /\ p <= offset_blocks[k].hi}

RECURSIVE SumOver(_)
SumOver(P) ==
    IF P = {} THEN F(0)
    ELSE LET p == CHOOSE q \in P : TRUE
         IN FAdd(SumOver(P \ {p}), value_raster[p])

\* C1: once every block is folded, the emitted rows are exactly the zones
\* that have a valid pixel, and a zone's count and sum are the number and the
\* total of the valid pixels of that zone in the whole raster.
C1_Conservation ==
    pc = "done" =>
        \A z \in Zones :
            LET P == {p \in 1..NumPixels : zone_raster[p] = z /\ ValidPixel(p)}
                R == {r \in OutRowSet : r.zone = z}
            IN IF P = {} THEN R = {}
               ELSE /\ Cardinality(R) = 1
                    /\ \A r \in R : r.count = Cardinality(P) /\ r.sum = SumOver(P)

\* C2: in every state, an accumulator with count > 0 holds as min the
\* smallest and as max the largest value folded into its zone so far, and
\* min <= max.
C2_MinMaxFolded ==
    \A z \in DOMAIN stats_dict :
        stats_dict[z].count > 0 =>
            LET vals == {value_raster[p] :
                            p \in {q \in FoldedPixels :
                                      zone_raster[q] = z /\ PassesMask(q)}}
                acc == stats_dict[z]
            IN /\ acc.min \in vals
               /\ acc.max \in vals
               /\ \A x \in vals : ~FLt(x, acc.min) /\ ~FLt(acc.max, x)
               /\ ~acc.min.nan /\ ~acc.max.nan /\ acc.min.v <= acc.max.v

RECURSIVE FoldAll(_, _)
FoldAll(stats, blocks) ==
    IF blocks = <<>> THEN stats
    ELSE FoldAll(FoldStats(stats, value_raster, zone_raster, Head(blocks)),
                 Tail(blocks))

RowSet(stats) ==
    {[zone |-> z, min |-> stats[z].min, max |-> stats[z].max,
      mean |-> Mean(stats[z]), count |-> stats[z].count, sum |-> stats[z].sum] :
        z \in DOMAIN stats}

\* C3: the rows a run emits are the rows of folding any other sequence of
\* windows that covers the raster exactly once, in any order.
C3_Commutativity ==
    pc = "done" =>
        \A blocks \in BlockSeqs : RowSet(FoldAll(EmptyDict, blocks)) = OutRowSet

\* C4: in every row of the table, mean * count = sum when count > 0 (the
\* mean is NaN exactly when the sum is), and the mean is 0 when count = 0.
C4_MeanCorrect ==
    \A k \in DOMAIN CsvRows :
        LET r == CsvRows[k]
        IN IF r.count > 0
           THEN /\ r.mean.nan = r.sum.nan
                /\ r.mean.den > 0
                /\ ~r.sum.nan => r.mean.num * r.count = r.sum.v * r.mean.den
           ELSE r.mean = [nan |-> FALSE, num |-> 0, den |-> 1]

\* A written row whose mean is not a whole number: 1 and 2 in one zone.
C4_Witness ==
    /\ Written
    /\ \E k \in DOMAIN OutRows :
          /\ OutRows[k].count = 2
          /\ OutRows[k].sum = F(3)
          /\ OutRows[k].mean = [nan |-> FALSE, num |-> 3, den |-> 2]

\* C5: the rows of the table are strictly ascending by zone id, so no zone
\* id appears twice.
C5_Ordering ==
    \A a, b \in DOMAIN CsvRows : a < b => CsvRows[a].zone < CsvRows[b].zone

\* Zone 2 was met before zone 1 and the written table lists 1 before 2.
C5_Witness ==
    /\ Written
    /\ key_order = <<2, 1>>
    /\ Len(OutRows) = 2
    /\ OutRows[1].zone = 1
    /\ OutRows[2].zone = 2

KeysLazy ==
    /\ ~default_mean
    /\ \A z \in DOMAIN stats_dict :
          /\ stats_dict[z].count > 0
          /\ \E p \in FoldedPixels : zone_raster[p] = z /\ PassesMask(p)

KeysKept ==
    /\ DOMAIN stats_dict \subseteq DOMAIN stats_dict'
    /\ pc # "loop" => DOMAIN stats_dict' = DOMAIN stats_dict

C7_EmptyResult ==
    (/\ SameGrid
     /\ ~read_failed
     /\ value_nodata # None
     /\ \A p \in 1..NumPixels : ~ValidPixel(p))
        => /\ pc # "aborted"
           /\ pc = "done" =>
                  output = Some([columns |-> column_names, rows |-> <<>>])

\* C8: when the two rasters differ in width no block is ever read.
C8_GridShapeMismatch == ~SameGrid => n_reads = 0

\* C9: without a value nodata the run does not abort (unless a read fails)
\* and every pixel whose zone is not nodata is counted; without a zone
\* nodata every pixel that passes the value test is counted.
C9_MissingNodata ==
    (SameGrid /\ ~read_failed) =>
        /\ value_nodata = None =>
              /\ pc # "aborted"
              /\ pc = "done" =>
                    \A z \in Zones :
                        LET P == {p \in 1..NumPixels :
                                     zone_raster[p] = z /\ ~IsZoneNodata(p)}
                        IN \A r \in OutRowSet :
                               r.zone = z => r.count = Cardinality(P)
        /\ (zone_nodata = None /\ value_nodata # None /\ pc = "done") =>
              \A z \in Zones :
                  LET P == {p \in 1..NumPixels :
                               zone_raster[p] = z /\ PassesMask(p)}
                  IN P # {} => \E r \in OutRowSet :
                                  r.zone = z /\ r.count = Cardinality(P)

\* C10: the table is written only when every block has been read and folded
\* and no read has failed; a run in which a read failed ends aborted with no
\* table.
C10_NoPartialOutput ==
    /\ Written =>
          /\ i > Len(offset_blocks)
          /\ n_reads = 2 * Len(offset_blocks)
          /\ ~read_failed
    /\ read_failed => pc = "aborted"
    /\ pc = "aborted" => ~Written

\* A read failed after a block had been folded into stats_dict.
C10_Witness ==
    /\ read_failed
    /\ pc = "aborted"
    /\ i > 1
    /\ DOMAIN stats_dict # {}
    /\ ~Written

====
